---------------------------- MODULE Spec2Model ----------------------------
(***************************************************************************)
(* Hydraulic-conductivity predictor (src/app.py), a Streamlit script.      *)
(*                                                                         *)
(* A Streamlit session runs the whole script top to bottom once for the    *)
(* first page load and once more after every user interaction (a widget   *)
(* edit or a button press).  One such run is a render cycle.  The widget   *)
(* values live in the session and survive from one run to the next; the    *)
(* script's own variables (model, FA .. UCS, warnings, X,                  *)
(* predicted_log_hc) and the elements on the page are rebuilt by every     *)
(* run.  st.button returns True only in the run its press started.         *)
(*                                                                         *)
(* Numbers are fixed point, in hundredths: 10.0 % is 1000, 200 kPa is      *)
(* 20000, log10(HC) = -7.0 is -700.  Every comparison of the script is a   *)
(* comparison of two such numbers; binary64 rounding inside FA+SCBA+EC is  *)
(* not modelled.                                                           *)
(***************************************************************************)
EXTENDS Integers, Sequences, FiniteSets

VARIABLES
    widgets,           \* session widget state: field name -> current value
    clicked,           \* what st.button returns in the current run
    pc,                \* position of the script run; "idle" between runs
    runs,              \* render cycles started so far in this process
    loads,             \* joblib.load calls made so far in this process
    model,             \* script variable model: id of the loaded handle, 0 unbound
    req,               \* script variables FA .. UCS, as one record
    warnings,          \* script variable warnings; each entry is shown by st.warning
    X,                 \* the vector handed to model.predict, <<>> before
    predictCalls,      \* model.predict calls made in the current run
    usedModel,         \* handle the current run's model.predict call was made on
    predicted_log_hc,  \* <<>>, or <<v>> once the run has shown the result lines
    zones,             \* zone banners shown in the current run, in order
    failed,            \* the run ended in an uncaught exception, shown on the page
    noteShown,         \* the closing note (st.markdown) was shown in the current run
    prev               \* how the previous run ended: "none", "plain", "result", "failed"

vars == <<widgets, clicked, pc, runs, loads, model, req, warnings, X, predictCalls,
          usedModel, predicted_log_hc, zones, failed, noteShown, prev>>

---------------------------------------------------------------------------
(* Bounds of the exploration *)

\* render cycles explored per process
MaxRuns == 5

---------------------------------------------------------------------------
(* Program constants, in hundredths *)

SumTarget == 10000
Tolerance == 100
UCSMin == 20000
GreenMax == -700
AmberMax == -650

Fields == {"FA", "SCBA", "EC", "LL", "PI", "FSI", "MDUW", "OMC", "UCS"}

\* st.number_input(label, min_value, max_value, value) of each field
WidgetSpec ==
    [FA   |-> [min |-> 0,    max |-> 10000,  value |-> 1000],
     SCBA |-> [min |-> 0,    max |-> 10000,  value |-> 1000],
     EC   |-> [min |-> 0,    max |-> 10000,  value |-> 8000],
     LL   |-> [min |-> 2000, max |-> 12000,  value |-> 7000],
     PI   |-> [min |-> 500,  max |-> 8000,   value |-> 3100],
     FSI  |-> [min |-> 0,    max |-> 20000,  value |-> 3800],
     MDUW |-> [min |-> 1000, max |-> 2500,   value |-> 1400],
     OMC  |-> [min |-> 500,  max |-> 4000,   value |-> 3200],
     UCS  |-> [min |-> 5000, max |-> 100000, value |-> 32100]]

Defaults == [f \in Fields |-> WidgetSpec[f].value]

\* Values a user types into each field.  The widget refuses anything outside
\* [min, max], so only the samples inside the range reach the script.
Samples ==
    [FA   |-> {500, 1000},
     SCBA |-> {500, 1000},
     EC   |-> {7899, 7900, 8000, 8100, 8101},
     LL   |-> {2000, 7000},
     PI   |-> {3100, 7000, 8000},
     FSI  |-> {0, 3800},
     MDUW |-> {1400, 2500},
     OMC  |-> {500, 3200},
     UCS  |-> {15000, 19999, 20000, 32100}]

InputValues(f) == {v \in Samples[f] : WidgetSpec[f].min <= v /\ v <= WidgetSpec[f].max}

\* What model.predict can answer.  The estimator is an opaque artifact: any of
\* these values can come back for any X, and so can an exception.
LogHCValues == {-701, -700, -699, -651, -650, -649}

\* FA .. UCS before the input section has bound them
NoRequest == [f \in Fields |-> -1]

WarnComposition == "FA + SCBA + EC should sum to 100%"
WarnStrength == "UCS < 200 kPa (may not satisfy liner strength requirement)"
WarnAtterberg == "Liquid Limit should be greater than Plasticity Index"

Green == "ACCEPTABLE (Green Zone)"
Amber == "ACCEPTABLE WITH CAUTION (Amber Zone)"
Red == "NOT ACCEPTABLE (Red Zone)"

---------------------------------------------------------------------------
(* Pure parts of the script *)

Abs(n) == IF n < 0 THEN -n ELSE n

\* Validate with the band's edges 99 and 101 taken as outside (>= for >)
ValidateBandEdgesOut(r) ==
    LET w1 == IF Abs(r.FA + r.SCBA + r.EC - SumTarget) >= Tolerance
              THEN <<WarnComposition>> ELSE <<>>
        w2 == IF r.UCS < UCSMin THEN Append(w1, WarnStrength) ELSE w1
    IN  IF r.LL < r.PI THEN Append(w2, WarnAtterberg) ELSE w2

\* Validate with UCS = 200 taken as too weak (<= for <)
ValidateStrengthEdgeOut(r) ==
    LET w1 == IF Abs(r.FA + r.SCBA + r.EC - SumTarget) > Tolerance
              THEN <<WarnComposition>> ELSE <<>>
        w2 == IF r.UCS <= UCSMin THEN Append(w1, WarnStrength) ELSE w1
    IN  IF r.LL < r.PI THEN Append(w2, WarnAtterberg) ELSE w2

\* Validate with LL = PI taken as inconsistent (<= for <)
ValidateAtterbergEdgeOut(r) ==
    LET w1 == IF Abs(r.FA + r.SCBA + r.EC - SumTarget) > Tolerance
              THEN <<WarnComposition>> ELSE <<>>
        w2 == IF r.UCS < UCSMin THEN Append(w1, WarnStrength) ELSE w1
    IN  IF r.LL <= r.PI THEN Append(w2, WarnAtterberg) ELSE w2

\* Validate as an if / elif / elif chain: only the first rule that applies warns
ValidateFirstOnly(r) ==
    IF Abs(r.FA + r.SCBA + r.EC - SumTarget) > Tolerance THEN <<WarnComposition>>
    ELSE IF r.UCS < UCSMin THEN <<WarnStrength>>
    ELSE IF r.LL < r.PI THEN <<WarnAtterberg>>
    ELSE <<>>

\* section 4: warnings = []; three independent if statements, each an append
Validate(r) ==
    LET w0 == <<>>
        w1 == IF Abs(r.FA + r.SCBA + r.EC - SumTarget) > Tolerance
              THEN Append(w0, WarnComposition) ELSE w0
        w2 == IF r.UCS < UCSMin THEN Append(w1, WarnStrength) ELSE w1
        w3 == IF r.LL < r.PI THEN Append(w2, WarnAtterberg) ELSE w2
    IN  w3

\* FeatureVector with LL and PI in each other's place
FeatureVectorSwapped(r) == <<r.FA, r.SCBA, r.EC, r.PI, r.LL, r.FSI, r.MDUW, r.OMC, r.UCS>>

\* X = np.array([[FA, SCBA, EC, LL, PI, FSI, MDUW, OMC, UCS]])
FeatureVector(r) == <<r.FA, r.SCBA, r.EC, r.LL, r.PI, r.FSI, r.MDUW, r.OMC, r.UCS>>

\* ZoneBanners with -7.0 itself left out of Green (< for <=)
ZoneBannersEdgeOut(v) ==
    IF v < GreenMax THEN <<Green>>
    ELSE IF GreenMax < v /\ v <= AmberMax THEN <<Amber>>
    ELSE <<Red>>

\* section 6: if / elif / else, one banner per branch
ZoneBanners(v) ==
    IF v <= GreenMax THEN <<Green>>
    ELSE IF GreenMax < v /\ v <= AmberMax THEN <<Amber>>
    ELSE <<Red>>

---------------------------------------------------------------------------
(* The session *)

Init ==
    /\ widgets = Defaults
    /\ clicked = FALSE
    /\ pc = "load"
    /\ runs = 1
    /\ loads = 0
    /\ model = 0
    /\ req = NoRequest
    /\ warnings = <<>>
    /\ X = <<>>
    /\ predictCalls = 0
    /\ usedModel = 0
    /\ predicted_log_hc = <<>>
    /\ zones = <<>>
    /\ failed = FALSE
    /\ noteShown = FALSE
    /\ prev = "none"

\* How the run that has just ended looks on the page
Outcome ==
    IF failed THEN "failed"
    ELSE IF predicted_log_hc # <<>> THEN "result"
    ELSE "plain"

\* A rerun: fresh script variables, an empty page
StartRun ==
    /\ pc' = "load"
    /\ runs' = runs + 1
    /\ model' = 0
    /\ req' = NoRequest
    /\ warnings' = <<>>
    /\ X' = <<>>
    /\ predictCalls' = 0
    /\ usedModel' = 0
    /\ predicted_log_hc' = <<>>
    /\ zones' = <<>>
    /\ failed' = FALSE
    /\ noteShown' = FALSE
    /\ prev' = Outcome
    /\ UNCHANGED loads

\* The user edits one number_input; Streamlit reruns the script
ChangeInput ==
    /\ pc = "idle"
    /\ runs < MaxRuns
    /\ \E f \in Fields : \E v \in InputValues(f) \ {widgets[f]} :
           widgets' = [widgets EXCEPT ![f] = v]
    /\ clicked' = FALSE
    /\ StartRun

\* The user presses "Predict Hydraulic Conductivity"; Streamlit reruns the script
ClickButton ==
    /\ pc = "idle"
    /\ runs < MaxRuns
    /\ clicked' = TRUE
    /\ UNCHANGED widgets
    /\ StartRun

\* section 2: model = joblib.load("rf_gwo_model.pkl"), a statement of the script body
LoadModel ==
    /\ pc = "load"
    /\ loads' = loads + 1
    /\ model' = loads + 1
    /\ pc' = "inputs"
    /\ UNCHANGED <<widgets, clicked, runs, req, warnings, X, predictCalls, usedModel,
                   predicted_log_hc, zones, failed, noteShown, prev>>

\* section 3: the nine st.number_input calls return the session's widget values
CollectInputs ==
    /\ pc = "inputs"
    /\ req' = [f \in Fields |-> widgets[f]]
    /\ pc' = "validate"
    /\ UNCHANGED <<widgets, clicked, runs, loads, model, warnings, X, predictCalls,
                   usedModel, predicted_log_hc, zones, failed, noteShown, prev>>

\* section 4: build the warning list and show each entry
ValidateInputs ==
    /\ pc = "validate"
    /\ warnings' = Validate(req)
    /\ pc' = "button"
    /\ UNCHANGED <<widgets, clicked, runs, loads, model, req, X, predictCalls,
                   usedModel, predicted_log_hc, zones, failed, noteShown, prev>>

\* RunButton that predicts only when the warning list is empty
RunButtonIfClean ==
    /\ pc = "button"
    /\ pc' = IF clicked /\ warnings = <<>> THEN "predict" ELSE "idle"
    /\ UNCHANGED <<widgets, clicked, runs, loads, model, req, warnings, X, predictCalls,
                   usedModel, predicted_log_hc, zones, failed, noteShown, prev>>

\* RunButton whose body runs in every run, pressed or not
RunButtonAlways ==
    /\ pc = "button"
    /\ pc' = "predict"
    /\ UNCHANGED <<widgets, clicked, runs, loads, model, req, warnings, X, predictCalls,
                   usedModel, predicted_log_hc, zones, failed, noteShown, prev>>

\* if st.button(...): the body runs only in a run the press started
RunButton ==
    /\ pc = "button"
    /\ pc' = IF clicked THEN "predict" ELSE "idle"
    /\ UNCHANGED <<widgets, clicked, runs, loads, model, req, warnings, X, predictCalls,
                   usedModel, predicted_log_hc, zones, failed, noteShown, prev>>

\* Predict that swallows the exception and classifies a stand-in value
PredictSwallow ==
    /\ pc = "predict"
    /\ X' = FeatureVector(req)
    /\ predictCalls' = predictCalls + 1
    /\ usedModel' = model
    /\ \/ \E out \in LogHCValues :
              /\ predicted_log_hc' = <<out>>
              /\ pc' = "classify"
              /\ UNCHANGED failed
       \/ /\ failed' = TRUE
          /\ predicted_log_hc' = <<0>>
          /\ pc' = "classify"
    /\ UNCHANGED <<widgets, clicked, runs, loads, model, req, warnings, zones,
                   noteShown, prev>>

\* X = ...; predicted_log_hc = model.predict(X)[0]; the two result lines.
\* There is no try/except: an exception leaves the script, Streamlit shows it
\* on the page and the run is over.
Predict ==
    /\ pc = "predict"
    /\ X' = FeatureVector(req)
    /\ predictCalls' = predictCalls + 1
    /\ usedModel' = model
    /\ \/ \E out \in LogHCValues :
              /\ predicted_log_hc' = <<out>>
              /\ pc' = "classify"
              /\ UNCHANGED failed
       \/ /\ failed' = TRUE
          /\ pc' = "idle"
          /\ UNCHANGED predicted_log_hc
    /\ UNCHANGED <<widgets, clicked, runs, loads, model, req, warnings, zones,
                   noteShown, prev>>

\* section 6: the traffic-light banner
Classify ==
    /\ pc = "classify"
    /\ zones' = zones \o ZoneBanners(predicted_log_hc[1])
    /\ pc' = "note"
    /\ UNCHANGED <<widgets, clicked, runs, loads, model, req, warnings, X, predictCalls,
                   usedModel, predicted_log_hc, failed, noteShown, prev>>

\* the closing st.markdown note; the script ends
ShowNote ==
    /\ pc = "note"
    /\ noteShown' = TRUE
    /\ pc' = "idle"
    /\ UNCHANGED <<widgets, clicked, runs, loads, model, req, warnings, X, predictCalls,
                   usedModel, predicted_log_hc, zones, failed, prev>>

Next ==
    \/ ChangeInput
    \/ ClickButton
    \/ LoadModel
    \/ CollectInputs
    \/ ValidateInputs
    \/ RunButton
    \/ Predict
    \/ Classify
    \/ ShowNote

Spec == Init /\ [][Next]_vars

---------------------------------------------------------------------------
(* Properties *)

\* the script has passed its validation section in the current run
Validated == pc \in {"button", "predict", "classify", "note", "idle"}

\* the script has passed its traffic-light section in the current run
Classified == predicted_log_hc # <<>> /\ pc \in {"note", "idle"}

Shown(w) == \E i \in 1..Len(warnings) : warnings[i] = w

CompositionSum == req.FA + req.SCBA + req.EC

\* C1: every prediction that was classified shows exactly one zone banner:
\* Green iff log10(HC) <= -7.0, Amber iff -7.0 < log10(HC) <= -6.5, Red iff
\* log10(HC) > -6.5; -7.0 itself is Green and -6.5 itself is Amber; before the
\* traffic-light section has run there is no banner.
C1_ZoneExact ==
    /\ Classified =>
         LET v == predicted_log_hc[1] IN
         /\ Len(zones) = 1
         /\ zones[1] \in {Green, Amber, Red}
         /\ zones[1] = Green <=> v <= -700
         /\ zones[1] = Amber <=> (-700 < v /\ v <= -650)
         /\ zones[1] = Red <=> v > -650
    /\ ~Classified => zones = <<>>

C1_Witness ==
    /\ pc = "idle"
    /\ predicted_log_hc \in {<<-700>>, <<-650>>}
    /\ zones = IF predicted_log_hc = <<-700>> THEN <<Green>> ELSE <<Amber>>
    /\ prev = "result"

\* C2: once validation has run, the composition warning is on the page iff
\* FA + SCBA + EC is below 99 or above 101, whatever the other six fields are.
C2_CompositionIff ==
    Validated => (Shown(WarnComposition) <=> (CompositionSum < 9900 \/ CompositionSum > 10100))

C2_Witness ==
    /\ Validated
    /\ CompositionSum \in {9900, 10100}
    /\ ~Shown(WarnComposition)
    /\ Len(warnings) > 0

\* C3: once validation has run, the strength warning is on the page iff
\* UCS < 200, whatever the other fields are; UCS = 200 gives none.
C3_StrengthIff ==
    Validated => (Shown(WarnStrength) <=> req.UCS < 20000)

C3_Witness ==
    /\ Validated
    /\ req.UCS = 20000
    /\ ~Shown(WarnStrength)
    /\ Len(warnings) > 0

\* C4: once validation has run, the Atterberg warning is on the page iff
\* LL < PI, whatever the other fields are; LL = PI gives none.
C4_AtterbergIff ==
    Validated => (Shown(WarnAtterberg) <=> req.LL < req.PI)

C4_Witness ==
    /\ Validated
    /\ req.LL = req.PI
    /\ ~Shown(WarnAtterberg)
    /\ Len(warnings) > 0

\* C5: a run the button press started always calls the model once, whatever
\* the warning list holds, and whenever the model answers, the result lines,
\* one zone banner and the closing note are shown.
C5_WarningsNeverBlock ==
    (pc = "idle" /\ clicked) =>
        /\ predictCalls = 1
        /\ ~failed => (predicted_log_hc # <<>> /\ Len(zones) = 1 /\ noteShown)

C5_Witness ==
    /\ pc = "idle"
    /\ clicked
    /\ warnings = <<WarnComposition, WarnStrength, WarnAtterberg>>
    /\ predicted_log_hc # <<>>
    /\ Len(zones) = 1

WarningHolds(w) ==
    IF w = WarnComposition THEN (CompositionSum < 9900 \/ CompositionSum > 10100)
    ELSE IF w = WarnStrength THEN req.UCS < 20000
    ELSE req.LL < req.PI

\* C6: the warning list is exactly the sub-sequence of <<composition,
\* strength, Atterberg>> whose conditions hold, in that order, each at most
\* once; FA=5, SCBA=5, EC=80, UCS=150 gives the composition and the strength
\* warning together, and the default form gives none.
C6_AllApplicableWarnings ==
    Validated =>
        /\ warnings = SelectSeq(<<WarnComposition, WarnStrength, WarnAtterberg>>, WarningHolds)
        /\ (req.FA = 500 /\ req.SCBA = 500 /\ req.EC = 8000 /\ req.UCS = 15000) =>
               (Shown(WarnComposition) /\ Shown(WarnStrength))
        /\ req = Defaults => warnings = <<>>

C6_Witness ==
    /\ Validated
    /\ req.FA = 500 /\ req.SCBA = 500 /\ req.EC = 8000 /\ req.UCS = 15000
    /\ warnings = <<WarnComposition, WarnStrength>>

\* C7: a run calls the model at most once, a run the press started calls it
\* once, and the vector it hands over has nine positions holding the current
\* FA, SCBA, EC, LL, PI, FSI, MDUW, OMC, UCS, in that order: the widget values
\* of this run, which are the values the validation section read.
C7_VectorOrder ==
    /\ predictCalls <= 1
    /\ predictCalls = 0 => X = <<>>
    /\ (clicked /\ pc \in {"classify", "note", "idle"}) => predictCalls = 1
    /\ predictCalls = 1 =>
         /\ Len(X) = 9
         /\ X[1] = widgets.FA /\ X[2] = widgets.SCBA /\ X[3] = widgets.EC
         /\ X[4] = widgets.LL /\ X[5] = widgets.PI /\ X[6] = widgets.FSI
         /\ X[7] = widgets.MDUW /\ X[8] = widgets.OMC /\ X[9] = widgets.UCS
         /\ \A f \in Fields : req[f] = widgets[f]

C7_Witness ==
    /\ predictCalls = 1
    /\ X[1] # X[2]
    /\ X[4] # X[5]
    /\ X[5] # Defaults.PI
    /\ Len(warnings) > 0

\* C8: the model is called, and a result line, a zone banner or the closing
\* note is on the page, only in a run the button press started; a run that
\* was not started by the press shows none of them, also when the run before
\* it showed a result.
C8_ResultOnlyWhenTriggered ==
    ~clicked =>
        /\ predictCalls = 0
        /\ predicted_log_hc = <<>>
        /\ zones = <<>>
        /\ ~noteShown
        /\ ~failed

C8_Witness ==
    /\ pc = "idle"
    /\ ~clicked
    /\ prev = "result"
    /\ predicted_log_hc = <<>>
    /\ zones = <<>>

C10_LoadedOnce ==
    /\ pc # "load" => loads = 1
    /\ predictCalls > 0 => usedModel = 1

=============================================================================
